---- MODULE Spec2Model ----
(***************************************************************************)
(* Model of infra/infra/infra_stack.py: the evaluation of                  *)
(* InfraStack.__init__, statement by statement, into a resource graph      *)
(* (variable stack), followed by the three environments the stack is       *)
(* written for: the provisioning engine applying the graph along its       *)
(* reference edges, the REST API serving requests through the declared     *)
(* methods, and the device using the declared IoT policy.                  *)
(*                                                                         *)
(* A construct call is modelled by what aws-cdk-lib makes of its           *)
(* arguments: the resources it adds to the template, the policy statements *)
(* it appends and the references (Ref / Fn::GetAtt) its properties hold.   *)
(* Only resources of the kinds the stack's properties speak about, and the *)
(* resources those refer to, are listed; log groups, Lambda permissions    *)
(* and the API's account/CloudWatch role are left out.                     *)
(***************************************************************************)
EXTENDS Integers, Sequences, FiniteSets, TLC

VARIABLES
    pc,         \* the statement of __init__ to evaluate next
    env,        \* self.account / self.region of the stack
    param_i,    \* position of the `for param in (...)` loop (line 124)
    stack,      \* the resource graph built so far
    created,    \* logical ids the provisioning engine has created
    request,    \* the API request in flight (or NoRequest)
    served,     \* number of API requests accepted so far
    device      \* outcome of the device's last IoT operation

vars == <<pc, env, param_i, stack, created, request, served, device>>

-----------------------------------------------------------------------------
(* Bounds of the model *)

\* API requests accepted in one behaviour
MaxRequests == 2

-----------------------------------------------------------------------------
(* Inputs *)

\* Stack(scope, id, **kwargs): without env the account and region are
\* deploy-time tokens, with env they are concrete
Envs == {[account |-> "AWS::AccountId", region |-> "AWS::Region"],
         [account |-> "362554412840", region |-> "eu-central-1"]}

\* what a caller may send to the API
Paths   == {"/", "/set-led", "/other"}
Verbs   == {"GET", "POST", "OPTIONS"}
Headers == {"absent", "invalid", "valid"}

\* what the device may try
ClientIds    == {"esp8266-001", "esp8266-002"}
TopicFilters == {"esp8266/commands/#", "#"}
Topics       == {"esp8266/commands/led", "esp8266/status"}

-----------------------------------------------------------------------------
(* Values *)

Ref(id)         == [ref |-> id]
GetAtt(id, att) == [getatt |-> id, att |-> att]

\* f"arn:aws:<service>:<region>:<account>:<resource>"
Arn(service, region, account, resource) ==
    [service |-> service, region |-> region, account |-> account,
     resource |-> resource]

\* Duration.hours(n), rendered by the app client in minutes
Hours(n) == n * 60

\* a python dict literal as a set of <<key, value>> items
Keys(d)   == {kv[1] : kv \in d}
Values(d) == {kv[2] : kv \in d}

Absent == [declared |-> FALSE]

Resource(id, type) == [id |-> id, type |-> type]

OfType(type) == {r \in stack.resources : r.type = type}

Ids == {r.id : r \in stack.resources}

-----------------------------------------------------------------------------
(* Construct helpers *)

\* Construct.__init__: a child of the stack
AddResources(s, rs) == [s EXCEPT !.resources = @ \cup rs]

\* a property of `from_` holding Ref / GetAtt of each id in `tos`
AddRefs(s, from_, tos) == [s EXCEPT !.refs = @ \cup {<<from_, t>> : t \in tos}]

\* s3.BlockPublicAccess.BLOCK_ALL
BLOCK_ALL == {"BlockPublicAcls", "BlockPublicPolicy",
              "IgnorePublicAcls", "RestrictPublicBuckets"}

\* Bucket.arn_for_objects(key_pattern)
arn_for_objects(bucket, pattern) ==
    Arn("s3", "", "", <<GetAtt(bucket, "Arn"), pattern>>)

\* iam.PolicyStatement(actions, resources, principals, conditions)
PolicyStatement(actions, resources, principals, conditions) ==
    [effect |-> "Allow", actions |-> actions, resources |-> resources,
     principals |-> principals, conditions |-> conditions]

ServicePrincipal(service) == [kind |-> "Service", id |-> service]
ArnPrincipal(arn)         == [kind |-> "AWS", id |-> arn]

\* Bucket.add_to_resource_policy: the statement is appended to the bucket's
\* one policy document
add_to_resource_policy(s, statement) ==
    [s EXCEPT !.bucketPolicy = Append(@, statement)]

-----------------------------------------------------------------------------
(* State after Stack.__init__ (line 23) *)

EmptyStack ==
    [resources   |-> {},
     refs        |-> {},
     bucket      |-> Absent,
     bucketPolicy |-> <<>>,
     behavior    |-> Absent,
     origin      |-> Absent,
     environment |-> {},
     params      |-> {},
     grants      |-> {},
     cors        |-> Absent,
     apiPaths    |-> {},
     methods     |-> {},
     userPool    |-> Absent,
     client      |-> Absent,
     authorizer  |-> Absent,
     things      |-> {},
     iotPolicy   |-> <<>>,
     attachments |-> {},
     outputs     |-> {}]

NoRequest == [stage |-> "none"]
NoOp      == [op |-> "none"]

Init ==
    /\ pc = "website_bucket"
    /\ env \in Envs
    /\ param_i = 1
    /\ stack = EmptyStack
    /\ created = {}
    /\ request = NoRequest
    /\ served = 0
    /\ device = NoOp

Step(from_, to) == pc = from_ /\ pc' = to

Untouched == UNCHANGED <<env, param_i, created, request, served, device>>

-----------------------------------------------------------------------------
(* Hosting: lines 25-98 *)

\* auto_delete_objects=True (line 31): Bucket.__init__ creates the
\* auto-delete custom resource with its provider (role and handler function)
\* and allows the provider's role on the bucket through the bucket policy
\* (the actions are those of current aws-cdk-lib; none reads an object)
AutoDeleteStatement ==
    PolicyStatement(
        {"s3:PutBucketPolicy", "s3:GetBucket*", "s3:List*", "s3:DeleteObject*"},
        {Arn("s3", "", "", <<GetAtt("FrontendWebsiteBucket", "Arn")>>),
         arn_for_objects("FrontendWebsiteBucket", "*")},
        {ArnPrincipal(GetAtt("AutoDeleteObjectsProviderRole", "Arn"))},
        {})

website_bucket ==
    /\ Step("website_bucket", "oac")
    /\ stack' =
        LET s1 == AddResources(stack,
                    {Resource("FrontendWebsiteBucket", "AWS::S3::Bucket"),
                     Resource("FrontendWebsiteBucketPolicy", "AWS::S3::BucketPolicy"),
                     Resource("AutoDeleteObjectsProviderRole", "AWS::IAM::Role"),
                     Resource("AutoDeleteObjectsProviderHandler", "AWS::Lambda::Function"),
                     Resource("AutoDeleteObjectsCustomResource", "Custom::S3AutoDeleteObjects")})
            s2 == [s1 EXCEPT !.bucket =
                    [declared |-> TRUE,
                     bucket_name |-> "iot-hub-frontend-cloudfront",
                     removal_policy |-> "DESTROY",
                     auto_delete_objects |-> TRUE,
                     block_public_access |-> BLOCK_ALL]]
            s3 == add_to_resource_policy(s2, AutoDeleteStatement)
            s4 == AddRefs(s3, "FrontendWebsiteBucketPolicy",
                    {"FrontendWebsiteBucket", "AutoDeleteObjectsProviderRole"})
            s5 == AddRefs(s4, "AutoDeleteObjectsProviderHandler",
                    {"AutoDeleteObjectsProviderRole"})
        IN AddRefs(s5, "AutoDeleteObjectsCustomResource",
                    {"AutoDeleteObjectsProviderHandler", "FrontendWebsiteBucket",
                     "FrontendWebsiteBucketPolicy"})
    /\ Untouched

oac ==
    /\ Step("oac", "distribution")
    /\ stack' = AddResources(stack,
                    {Resource("OAC", "AWS::CloudFront::OriginAccessControl")})
    /\ Untouched

\* origins=[OriginProperty(...)] (lines 54-63)
S3Origin ==
    [id |-> "S3Origin",
     domain_name |-> GetAtt("FrontendWebsiteBucket", "RegionalDomainName"),
     origin_access_identity |-> "",
     origin_access_control_id |-> Ref("OAC")]

\* a cache behavior that lets every verb through and forwards cookies
default_cache_behavior_permissive ==
    [declared |-> TRUE,
     target_origin_id |-> "S3Origin",
     viewer_protocol_policy |-> "allow-all",
     allowed_methods |-> {"GET", "HEAD", "OPTIONS", "PUT", "PATCH", "POST", "DELETE"},
     cached_methods |-> {"GET", "HEAD"},
     compress |-> TRUE,
     query_string |-> FALSE,
     cookies_forward |-> "all"]

\* default_cache_behavior=DefaultCacheBehaviorProperty(...) (lines 64-74)
default_cache_behavior ==
    [declared |-> TRUE,
     target_origin_id |-> "S3Origin",
     viewer_protocol_policy |-> "redirect-to-https",
     allowed_methods |-> {"GET", "HEAD", "OPTIONS"},
     cached_methods |-> {"GET", "HEAD"},
     compress |-> TRUE,
     query_string |-> FALSE,
     cookies_forward |-> "none"]

\* the ids a token-bearing origin refers to
OriginRefs(o) == {o.domain_name.getatt, o.origin_access_control_id.ref}

distribution ==
    /\ Step("distribution", "bucket_policy")
    /\ stack' =
        LET s1 == AddResources(stack,
                    {Resource("WebsiteDistribution", "AWS::CloudFront::Distribution")})
            s2 == [s1 EXCEPT !.origin = S3Origin,
                             !.behavior = default_cache_behavior]
        IN AddRefs(s2, "WebsiteDistribution", OriginRefs(S3Origin))
    /\ Untouched

\* the statement without its conditions: any distribution may read
CloudFrontStatementUnconditioned ==
    PolicyStatement(
        {"s3:GetObject"},
        {arn_for_objects("FrontendWebsiteBucket", "*")},
        {ServicePrincipal("cloudfront.amazonaws.com")},
        {})

\* the statement of lines 80-89
CloudFrontStatement ==
    PolicyStatement(
        {"s3:GetObject"},
        {arn_for_objects("FrontendWebsiteBucket", "*")},
        {ServicePrincipal("cloudfront.amazonaws.com")},
        {[op |-> "StringEquals", key |-> "AWS:SourceArn",
          value |-> Arn("cloudfront", "", env.account,
                        <<"distribution", Ref("WebsiteDistribution")>>)]})

\* a condition that spells the distribution's id out instead of using
\* distribution.ref refers to nothing
ConditionRefsSpelledOut(st) == {}

\* the ids a statement's conditions refer to
ConditionRefs(st) ==
    {c.value.resource[2].ref : c \in st.conditions}

bucket_policy ==
    /\ Step("bucket_policy", "deploy_frontend")
    /\ stack' =
        AddRefs(add_to_resource_policy(stack, CloudFrontStatement),
                "FrontendWebsiteBucketPolicy",
                ConditionRefs(CloudFrontStatement))
    /\ Untouched

\* s3deploy.BucketDeployment: a custom resource served by a handler function
deploy_frontend ==
    /\ Step("deploy_frontend", "set_led_lambda")
    /\ stack' =
        LET s1 == AddResources(stack,
                    {Resource("DeployFrontendHandler", "AWS::Lambda::Function"),
                     Resource("DeployFrontendCustomResource", "Custom::CDKBucketDeployment")})
        IN AddRefs(s1, "DeployFrontendCustomResource",
                    {"DeployFrontendHandler", "FrontendWebsiteBucket"})
    /\ Untouched

-----------------------------------------------------------------------------
(* Compute function and secret references: lines 100-125 *)

\* an environment that carries the password itself
environmentWithSecret ==
    {<<"MQTT_USERNAME_SSM", "/iot/mqtt/username">>,
     <<"MQTT_PASSWORD", "correct horse battery staple">>,
     <<"MQTT_BROKER_SSM", "/iot/mqtt/broker">>}

\* environment={...} (lines 107-111)
environment ==
    {<<"MQTT_USERNAME_SSM", "/iot/mqtt/username">>,
     <<"MQTT_PASSWORD_SSM", "/iot/mqtt/password">>,
     <<"MQTT_BROKER_SSM", "/iot/mqtt/broker">>}

\* _lambda.Function: the function and its execution role
set_led_lambda ==
    /\ Step("set_led_lambda", "username_param")
    /\ stack' =
        LET s1 == AddResources(stack,
                    {Resource("SetLedLambdaGo", "AWS::Lambda::Function"),
                     Resource("SetLedLambdaGoServiceRole", "AWS::IAM::Role")})
            s2 == [s1 EXCEPT !.environment = environment]
        IN AddRefs(s2, "SetLedLambdaGo", {"SetLedLambdaGoServiceRole"})
    /\ Untouched

\* ssm.StringParameter.from_*_parameter_attributes: a reference to a
\* parameter that exists outside the stack (no resource is declared)
ImportParam(id, name, type, version) ==
    [id |-> id, parameter_name |-> name, type |-> type, version |-> version]

AddParam(s, p) == [s EXCEPT !.params = @ \cup {p}]

UsernameParam == ImportParam("UsernameParam", "/iot/mqtt/username", "SecureString", 1)
PasswordParam == ImportParam("PasswordParam", "/iot/mqtt/password", "SecureString", 1)
BrokerParam   == ImportParam("BrokerParam", "/iot/mqtt/broker", "String", 0)

username_param ==
    /\ Step("username_param", "password_param")
    /\ stack' = AddParam(stack, UsernameParam)
    /\ Untouched

password_param ==
    /\ Step("password_param", "broker_param")
    /\ stack' = AddParam(stack, PasswordParam)
    /\ Untouched

broker_param ==
    /\ Step("broker_param", "grant_read")
    /\ stack' = AddParam(stack, BrokerParam)
    /\ Untouched

\* the tuple the loop of line 124 iterates over
GrantedParams == <<UsernameParam, PasswordParam, BrokerParam>>

\* IParameter.parameter_arn
parameter_arn(p) == Arn("ssm", env.region, env.account, <<"parameter", p.parameter_name>>)

\* IParameter.grant_read(grantee): a statement on the grantee's identity
\* policy (the role's default policy, declared with the first grant)
ReadActions == {"ssm:DescribeParameters", "ssm:GetParameters",
                "ssm:GetParameter", "ssm:GetParameterHistory"}

\* IParameter.grant_write(grantee) in place of grant_read
GrantWriteStatement(p) ==
    [grantee |-> "SetLedLambdaGoServiceRole",
     actions |-> {"ssm:PutParameter"},
     resource |-> parameter_arn(p)]

GrantStatement(p) ==
    [grantee |-> "SetLedLambdaGoServiceRole",
     actions |-> ReadActions,
     resource |-> parameter_arn(p)]

grant_read ==
    /\ pc = "grant_read"
    /\ IF param_i <= Len(GrantedParams)
       THEN /\ stack' =
                LET s1 == AddResources(stack,
                            {Resource("SetLedLambdaGoServiceRoleDefaultPolicy",
                                      "AWS::IAM::Policy")})
                    s2 == [s1 EXCEPT !.grants =
                            @ \cup {GrantStatement(GrantedParams[param_i])}]
                    s3 == AddRefs(s2, "SetLedLambdaGoServiceRoleDefaultPolicy",
                            {"SetLedLambdaGoServiceRole"})
                IN AddRefs(s3, "SetLedLambdaGo",
                            {"SetLedLambdaGoServiceRoleDefaultPolicy"})
            /\ param_i' = param_i + 1
            /\ pc' = pc
       ELSE /\ pc' = "api"
            /\ UNCHANGED <<stack, param_i>>
    /\ UNCHANGED <<env, created, request, served, device>>

-----------------------------------------------------------------------------
(* API front and identity provider: lines 127-183 *)

\* apigateway.Cors.ALL_ORIGINS / ALL_METHODS / DEFAULT_HEADERS
ALL_ORIGINS == {"*"}
ALL_METHODS == {"OPTIONS", "GET", "PUT", "POST", "DELETE", "PATCH", "HEAD"}
DEFAULT_HEADERS == {"Content-Type", "X-Amz-Date", "Authorization", "X-Api-Key",
                    "X-Amz-Security-Token", "X-Amz-User-Agent"}

\* default_cors_preflight_options=CorsOptions(...) (lines 133-137)
default_cors_preflight_options ==
    [declared |-> TRUE,
     allow_origins |-> ALL_ORIGINS,
     allow_methods |-> ALL_METHODS,
     allow_headers |-> DEFAULT_HEADERS \cup {"Accept", "Authorization"}]

Method(id, path, http_method, authorization_type, auth, integration) ==
    [id |-> id, path |-> path, http_method |-> http_method,
     authorization_type |-> authorization_type, authorizer |-> auth,
     integration |-> integration]

MockIntegration      == [type |-> "MOCK", target |-> "none"]
LambdaIntegration(f) == [type |-> "AWS_PROXY", target |-> f]

\* the ids a method's properties refer to
MethodRefs(m, pathIds) ==
    {"IoTHubAPI"} \cup pathIds
    \cup (IF m.authorizer = "none" THEN {} ELSE {m.authorizer})
    \cup (IF m.integration.target = "none" THEN {} ELSE {m.integration.target})

\* Resource.add_method / the OPTIONS method a resource with CORS preflight
\* options gets: the method is declared and the API's deployment waits for it
AddMethod(s, m, pathIds) ==
    LET s1 == AddResources(s, {Resource(m.id, "AWS::ApiGateway::Method")})
        s2 == [s1 EXCEPT !.methods = @ \cup {m}]
        s3 == AddRefs(s2, m.id, MethodRefs(m, pathIds))
    IN AddRefs(s3, "IoTHubAPIDeployment", {m.id})

\* the preflight method of a path: unauthenticated, served by the gateway
\* itself
Preflight(id, path) == Method(id, path, "OPTIONS", "NONE", "none", MockIntegration)

\* apigateway.RestApi: the API, its deployment and stage, the preflight
\* method of the root resource and the API's own Endpoint output
api ==
    /\ Step("api", "user_pool")
    /\ stack' =
        LET s1 == AddResources(stack,
                    {Resource("IoTHubAPI", "AWS::ApiGateway::RestApi"),
                     Resource("IoTHubAPIDeployment", "AWS::ApiGateway::Deployment"),
                     Resource("IoTHubAPIDeploymentStageprod", "AWS::ApiGateway::Stage")})
            s2 == [s1 EXCEPT !.cors = default_cors_preflight_options,
                             !.outputs = @ \cup
                                {[name |-> "IoTHubAPIEndpoint",
                                  value |-> <<"url", Ref("IoTHubAPI")>>]}]
            s3 == AddRefs(s2, "IoTHubAPIDeployment", {"IoTHubAPI"})
            s4 == AddRefs(s3, "IoTHubAPIDeploymentStageprod",
                    {"IoTHubAPI", "IoTHubAPIDeployment"})
        IN AddMethod(s4, Preflight("IoTHubAPIOPTIONS", "/"), {})
    /\ Untouched

\* a user pool whose second factor is optional and may be an SMS code
IoTHubUserPoolOptionalMfa ==
    [declared |-> TRUE,
     self_sign_up_enabled |-> FALSE,
     sign_in_aliases |-> {"email"},
     auto_verify |-> {"email"},
     account_recovery |-> "EMAIL_ONLY",
     mfa |-> "OPTIONAL",
     mfa_second_factor |-> [sms |-> TRUE, otp |-> TRUE],
     removal_policy |-> "DESTROY"]

\* cognito.UserPool(...) (lines 141-151)
IoTHubUserPool ==
    [declared |-> TRUE,
     self_sign_up_enabled |-> FALSE,
     sign_in_aliases |-> {"email"},
     auto_verify |-> {"email"},
     account_recovery |-> "EMAIL_ONLY",
     mfa |-> "REQUIRED",
     mfa_second_factor |-> [sms |-> FALSE, otp |-> TRUE],
     removal_policy |-> "DESTROY"]

\* UserPool renders mfa / mfa_second_factor as MfaConfiguration and
\* EnabledMfas
MfaConfiguration(pool) ==
    CASE pool.mfa = "OFF"      -> "OFF"
      [] pool.mfa = "OPTIONAL" -> "OPTIONAL"
      [] pool.mfa = "REQUIRED" -> "ON"

EnabledMfas(pool) ==
    IF pool.mfa = "OFF" THEN {}
    ELSE (IF pool.mfa_second_factor.sms THEN {"SMS_MFA"} ELSE {})
         \cup (IF pool.mfa_second_factor.otp THEN {"SOFTWARE_TOKEN_MFA"} ELSE {})

user_pool ==
    /\ Step("user_pool", "user_pool_client")
    /\ stack' =
        LET s1 == AddResources(stack,
                    {Resource("IoTHubUserPool", "AWS::Cognito::UserPool")})
        IN [s1 EXCEPT !.userPool = IoTHubUserPool]
    /\ Untouched

\* an app client whose refresh token lives for thirty days
IoTHubAppClientLongRefresh ==
    [declared |-> TRUE,
     auth_flows |-> {"user_srp", "user_password", "admin_user_password"},
     id_token_validity |-> Hours(1),
     access_token_validity |-> Hours(1),
     refresh_token_validity |-> Hours(720),
     enable_token_revocation |-> TRUE]

\* user_pool.add_client("IoTHubAppClient", ...) (lines 153-166)
IoTHubAppClient ==
    [declared |-> TRUE,
     auth_flows |-> {"user_srp", "user_password", "admin_user_password"},
     id_token_validity |-> Hours(1),
     access_token_validity |-> Hours(1),
     refresh_token_validity |-> Hours(1),
     enable_token_revocation |-> TRUE]

user_pool_client ==
    /\ Step("user_pool_client", "authorizer")
    /\ stack' =
        LET s1 == AddResources(stack,
                    {Resource("IoTHubAppClient", "AWS::Cognito::UserPoolClient")})
            s2 == [s1 EXCEPT !.client = IoTHubAppClient]
        IN AddRefs(s2, "IoTHubAppClient", {"IoTHubUserPool"})
    /\ Untouched

authorizer ==
    /\ Step("authorizer", "set_led_resource")
    /\ stack' =
        LET s1 == AddResources(stack,
                    {Resource("IoTHubAuthorizer", "AWS::ApiGateway::Authorizer")})
            s2 == [s1 EXCEPT !.authorizer =
                    [declared |-> TRUE,
                     id |-> "IoTHubAuthorizer",
                     type |-> "COGNITO_USER_POOLS",
                     cognito_user_pools |-> {"IoTHubUserPool"},
                     identity_source |-> "method.request.header.Authorization"]]
        IN AddRefs(s2, "IoTHubAuthorizer", {"IoTHubUserPool"})
    /\ Untouched

\* api.root.add_resource("set-led"): the path and, under the API's default
\* CORS options, its preflight method
set_led_resource ==
    /\ Step("set_led_resource", "set_led_post")
    /\ stack' =
        LET s1 == AddResources(stack,
                    {Resource("IoTHubAPIsetled", "AWS::ApiGateway::Resource")})
            s2 == [s1 EXCEPT !.apiPaths = @ \cup {"/set-led"}]
            s3 == AddRefs(s2, "IoTHubAPIsetled", {"IoTHubAPI"})
            s4 == AddRefs(s3, "IoTHubAPIDeployment", {"IoTHubAPIsetled"})
        IN IF s4.cors.declared
           THEN AddMethod(s4, Preflight("IoTHubAPIsetledOPTIONS", "/set-led"),
                          {"IoTHubAPIsetled"})
           ELSE s4
    /\ Untouched

\* add_method("POST", integration) without authorizer
SetLedPostOpen ==
    Method("IoTHubAPIsetledPOST", "/set-led", "POST", "NONE", "none",
           LambdaIntegration("SetLedLambdaGo"))

\* the arguments of add_method (lines 179-182)
SetLedPost ==
    Method("IoTHubAPIsetledPOST", "/set-led", "POST",
           "COGNITO_USER_POOLS", "IoTHubAuthorizer",
           LambdaIntegration("SetLedLambdaGo"))

\* set_led_resource.add_method("POST", ...) (lines 178-183); the authorizer
\* is bound to the API of the first method that uses it
set_led_post ==
    /\ Step("set_led_post", "thing")
    /\ stack' =
        LET s1 == AddMethod(stack, SetLedPost, {"IoTHubAPIsetled"})
        IN IF SetLedPost.authorizer = "none" THEN s1
           ELSE AddRefs(s1, SetLedPost.authorizer, {"IoTHubAPI"})
    /\ Untouched

-----------------------------------------------------------------------------
(* Device identity: lines 185-221 *)

thing_name == "esp8266-001"

ThingNameVariable == "${iot:Connection.Thing.ThingName}"

IotStatement(actions, resource) ==
    [effect |-> "Allow", actions |-> actions, resource |-> resource]

\* a policy document that lets the certificate connect as any client
policy_document_any_client ==
    <<[effect |-> "Allow", actions |-> {"iot:Connect"},
       resource |-> Arn("iot", env.region, env.account, <<"client", "*">>)],
      [effect |-> "Allow", actions |-> {"iot:Subscribe", "iot:Receive"},
       resource |-> Arn("iot", env.region, env.account,
                        <<"topicfilter", "esp8266/commands/#">>)]>>

\* policy_document={...} (lines 190-206)
policy_document ==
    <<IotStatement({"iot:Connect"},
        Arn("iot", env.region, env.account, <<"client", ThingNameVariable>>)),
      IotStatement({"iot:Subscribe", "iot:Receive"},
        Arn("iot", env.region, env.account, <<"topicfilter", "esp8266/commands/#">>))>>

\* line 209
cert_arn ==
    Arn("iot", "eu-central-1", "362554412840",
        <<"cert", "a6a16362059843b24e67a99ec569ef8301005a7dcad0794376cb4561c53f72de">>)

thing ==
    /\ Step("thing", "iot_policy")
    /\ stack' =
        LET s1 == AddResources(stack, {Resource("EspThing", "AWS::IoT::Thing")})
        IN [s1 EXCEPT !.things = @ \cup
                {[id |-> "EspThing", thing_name |-> thing_name]}]
    /\ Untouched

iot_policy ==
    /\ Step("iot_policy", "attach_pol")
    /\ stack' =
        LET s1 == AddResources(stack, {Resource("EspPolicy", "AWS::IoT::Policy")})
        IN [s1 EXCEPT !.iotPolicy = policy_document]
    /\ Untouched

Attach(s, id, type, target) ==
    LET s1 == AddResources(s, {Resource(id, type)})
        s2 == [s1 EXCEPT !.attachments = @ \cup
                {[id |-> id, type |-> type, target |-> Ref(target),
                  principal |-> cert_arn]}]
    IN AddRefs(s2, id, {target})

attach_pol ==
    /\ Step("attach_pol", "attach_thing")
    /\ stack' = Attach(stack, "AttachPol",
                       "AWS::IoT::PolicyPrincipalAttachment", "EspPolicy")
    /\ Untouched

attach_thing ==
    /\ Step("attach_thing", "outputs")
    /\ stack' = Attach(stack, "AttachThing",
                       "AWS::IoT::ThingPrincipalAttachment", "EspThing")
    /\ Untouched

-----------------------------------------------------------------------------
(* Outputs: lines 223-227 *)

CfnOutput(name, value) == [name |-> name, value |-> value]

\* the outputs without the app client's identifier
CfnOutputsWithoutClient ==
    {[name |-> "CloudFrontURL",
      value |-> <<"https://", GetAtt("WebsiteDistribution", "DomainName")>>],
     [name |-> "ApiURL", value |-> <<"url", Ref("IoTHubAPI")>>],
     [name |-> "UserPoolId", value |-> <<"id", Ref("IoTHubUserPool")>>]}

CfnOutputs ==
    {CfnOutput("CloudFrontURL", <<"https://", GetAtt("WebsiteDistribution", "DomainName")>>),
     CfnOutput("ApiURL", <<"url", Ref("IoTHubAPI")>>),
     CfnOutput("UserPoolId", <<"id", Ref("IoTHubUserPool")>>),
     CfnOutput("UserPoolClientId", <<"id", Ref("IoTHubAppClient")>>)}

outputs ==
    /\ Step("outputs", "done")
    /\ stack' = [stack EXCEPT !.outputs = @ \cup CfnOutputs]
    /\ Untouched

Evaluated == pc = "done"

-----------------------------------------------------------------------------
(* The provisioning engine: independent resources in any order, a resource *)
(* only after every resource it refers to                                  *)

DependsOn(id) == {e[2] : e \in {x \in stack.refs : x[1] = id}}

AllCreated == Evaluated /\ created = Ids

Create(id) ==
    /\ Evaluated
    /\ id \in Ids \ created
    /\ DependsOn(id) \subseteq created
    /\ created' = created \cup {id}
    /\ UNCHANGED <<pc, env, param_i, stack, request, served, device>>

apply == \E id \in Ids : Create(id)

-----------------------------------------------------------------------------
(* The deployed API: a request is routed to the declared method of its     *)
(* path and verb, passes the method's authorizer, and is handed to the     *)
(* method's integration                                                    *)

MethodFor(path, verb) ==
    {m \in stack.methods : m.path = path /\ m.http_method = verb}

Respond(status) ==
    request' = [request EXCEPT !.stage = "responded", !.status = status]

Receive(path, verb, header) ==
    /\ AllCreated
    /\ request = NoRequest
    /\ served < MaxRequests
    /\ served' = served + 1
    /\ request' = [stage |-> "received", path |-> path, verb |-> verb,
                   header |-> header, passed |-> FALSE, target |-> "none",
                   status |-> 0]
    /\ UNCHANGED <<pc, env, param_i, stack, created, device>>

\* no method for the path and verb: the gateway answers itself
Route ==
    /\ request.stage = "received"
    /\ IF MethodFor(request.path, request.verb) = {}
       THEN Respond(403)
       ELSE request' = [request EXCEPT !.stage = "routed"]
    /\ UNCHANGED <<pc, env, param_i, stack, created, served, device>>

\* a COGNITO_USER_POOLS method admits only a request whose identity source
\* carries a token of the authorizer's user pool
Authorize ==
    /\ request.stage = "routed"
    /\ \E m \in MethodFor(request.path, request.verb) :
        IF m.authorization_type = "NONE"
        THEN request' = [request EXCEPT !.stage = "admitted"]
        ELSE IF /\ m.authorizer = stack.authorizer.id
                /\ stack.authorizer.identity_source =
                        "method.request.header.Authorization"
                /\ request.header = "valid"
             THEN request' = [request EXCEPT !.stage = "admitted",
                                             !.passed = TRUE]
             ELSE Respond(401)
    /\ UNCHANGED <<pc, env, param_i, stack, created, served, device>>

Integrate ==
    /\ request.stage = "admitted"
    /\ \E m \in MethodFor(request.path, request.verb) :
        IF m.integration.type = "AWS_PROXY"
        THEN request' = [request EXCEPT !.stage = "invoked",
                                        !.target = m.integration.target]
        ELSE Respond(204)
    /\ UNCHANGED <<pc, env, param_i, stack, created, served, device>>

Complete ==
    /\ request.stage \in {"invoked", "responded"}
    /\ request' = NoRequest
    /\ UNCHANGED <<pc, env, param_i, stack, created, served, device>>

api_request ==
    \E path \in Paths, verb \in Verbs, header \in Headers :
        Receive(path, verb, header)

-----------------------------------------------------------------------------
(* The device: an operation under the certificate is allowed when a        *)
(* statement of a policy attached to the certificate allows its action on  *)
(* its resource                                                            *)

\* the things the certificate is attached to
AttachedThings ==
    {th.thing_name : th \in
        {x \in stack.things :
            \E a \in stack.attachments :
                /\ a.type = "AWS::IoT::ThingPrincipalAttachment"
                /\ a.principal = cert_arn
                /\ a.target = Ref(x.id)}}

PolicyAttached ==
    \E a \in stack.attachments :
        /\ a.type = "AWS::IoT::PolicyPrincipalAttachment"
        /\ a.principal = cert_arn
        /\ a.target = Ref("EspPolicy")

\* ${iot:Connection.Thing.ThingName} is the client id when the client id
\* names a thing the certificate is attached to, and matches nothing else
Substitute(pattern, client_id) ==
    IF pattern # ThingNameVariable THEN pattern
    ELSE IF client_id \in AttachedThings THEN client_id
    ELSE "(unresolved)"

ResourceMatches(pattern, res, client_id) ==
    /\ pattern.service = res.service
    /\ pattern.region = res.region
    /\ pattern.account = res.account
    /\ pattern.resource[1] = res.resource[1]
    /\ LET p == Substitute(pattern.resource[2], client_id)
       IN p = "*" \/ p = res.resource[2]

PolicyAllows(action, res, client_id) ==
    /\ PolicyAttached
    /\ \E i \in 1..Len(stack.iotPolicy) :
        /\ stack.iotPolicy[i].effect = "Allow"
        /\ action \in stack.iotPolicy[i].actions
        /\ ResourceMatches(stack.iotPolicy[i].resource, res, client_id)

DeviceOp(action, kind, name, client_id) ==
    /\ AllCreated
    /\ device' = [op |-> action, name |-> name, client_id |-> client_id,
                  allowed |-> PolicyAllows(action,
                                Arn("iot", env.region, env.account, <<kind, name>>),
                                client_id)]
    /\ UNCHANGED <<pc, env, param_i, stack, created, request, served>>

DeviceConnect == \E c \in ClientIds : DeviceOp("iot:Connect", "client", c, c)

DeviceSubscribe ==
    \E f \in TopicFilters : DeviceOp("iot:Subscribe", "topicfilter", f, thing_name)

DevicePublish ==
    \E tp \in Topics : DeviceOp("iot:Publish", "topic", tp, thing_name)

-----------------------------------------------------------------------------

Next ==
    \/ website_bucket
    \/ oac
    \/ distribution
    \/ bucket_policy
    \/ deploy_frontend
    \/ set_led_lambda
    \/ username_param
    \/ password_param
    \/ broker_param
    \/ grant_read
    \/ api
    \/ user_pool
    \/ user_pool_client
    \/ authorizer
    \/ set_led_resource
    \/ set_led_post
    \/ thing
    \/ iot_policy
    \/ attach_pol
    \/ attach_thing
    \/ outputs
    \/ apply
    \/ api_request
    \/ Route
    \/ Authorize
    \/ Integrate
    \/ Complete
    \/ DeviceConnect
    \/ DeviceSubscribe
    \/ DevicePublish

Spec == Init /\ [][Next]_vars

-----------------------------------------------------------------------------
(* Properties of the evaluated resource graph *)

Count(type) == Cardinality(OfType(type))

Statements(doc) == {doc[i] : i \in 1..Len(doc)}

\* action patterns of a bucket policy that cover reading an object
ObjectReadPatterns == {"s3:GetObject", "s3:GetObject*", "s3:Get*", "s3:*", "*"}

DistributionArn(id) ==
    Arn("cloudfront", "", env.account, <<"distribution", Ref(id)>>)

\* the statement gives the delivery front, and nobody else, read access to
\* the bucket's objects on behalf of a distribution of this stack
ScopedToDeliveryFront(st) ==
    /\ st.effect = "Allow"
    /\ st.actions = {"s3:GetObject"}
    /\ st.resources = {arn_for_objects("FrontendWebsiteBucket", "*")}
    /\ Cardinality(st.principals) = 1
    /\ \A p \in st.principals :
        p.kind = "Service" /\ p.id = "cloudfront.amazonaws.com"
    /\ Cardinality(st.conditions) = 1
    /\ \A c \in st.conditions :
        /\ c.op = "StringEquals"
        /\ c.key = "AWS:SourceArn"
        /\ \E d \in OfType("AWS::CloudFront::Distribution") :
                c.value = DistributionArn(d.id)

\* the statement serves the bucket's own auto-delete provider: its one
\* principal is a role of this stack and it gives no read access to objects
ScopedToAutoDelete(st) ==
    /\ st.actions \cap ObjectReadPatterns = {}
    /\ Cardinality(st.principals) = 1
    /\ \A p \in st.principals :
        /\ p.kind = "AWS"
        /\ \E r \in OfType("AWS::IAM::Role") : p.id = GetAtt(r.id, "Arn")

\* C1 as stated: the website bucket blocks all public access and its
\* resource policy holds exactly one statement, which allows only
\* s3:GetObject on the bucket's objects to the cloudfront.amazonaws.com
\* service principal under StringEquals AWS:SourceArn = the ARN of this
\* stack's distribution; no other principal appears in the policy.
C1_ExactlyOneStatement ==
    Evaluated =>
        /\ stack.bucket.block_public_access = BLOCK_ALL
        /\ Len(stack.bucketPolicy) = 1
        /\ \A st \in Statements(stack.bucketPolicy) : ScopedToDeliveryFront(st)

\* C1 amended: the website bucket blocks all public access and its resource
\* policy holds exactly two statements. The only statement that allows
\* reading objects is the one the stack adds: s3:GetObject on the bucket's
\* objects, for the cloudfront.amazonaws.com service principal alone, under
\* StringEquals AWS:SourceArn = the ARN of this stack's distribution. The
\* other statement is the one auto_delete_objects=True brings: its only
\* principal is the auto-delete provider's role of this stack and it allows
\* no object read. No other principal appears in the policy.
C1_BucketPolicy ==
    Evaluated =>
        /\ stack.bucket.block_public_access = BLOCK_ALL
        /\ Len(stack.bucketPolicy) = 2
        /\ \A st \in Statements(stack.bucketPolicy) :
            IF st.actions \cap ObjectReadPatterns # {}
            THEN ScopedToDeliveryFront(st)
            ELSE ScopedToAutoDelete(st)
        /\ \E i \in 1..Len(stack.bucketPolicy) :
            ScopedToDeliveryFront(stack.bucketPolicy[i])

C1_Witness ==
    /\ Evaluated
    /\ "FrontendWebsiteBucketPolicy" \in created
    /\ \E i \in 1..Len(stack.bucketPolicy) :
        "s3:GetObject" \in stack.bucketPolicy[i].actions

-----------------------------------------------------------------------------

FunctionIds == {r.id : r \in OfType("AWS::Lambda::Function")}

Mutating(m) == m.http_method \in {"POST", "PUT", "PATCH", "DELETE"}

\* the compute targets a method's integration hands a request to
ComputeTargets(m) ==
    IF m.integration.type = "AWS_PROXY"
    THEN {m.integration.target} \cap FunctionIds
    ELSE {}

\* the method is gated by the user-pool authorizer reading the
\* Authorization header
Gated(m) ==
    /\ m.authorization_type = "COGNITO_USER_POOLS"
    /\ stack.authorizer.declared
    /\ m.authorizer = stack.authorizer.id
    /\ stack.authorizer.type = "COGNITO_USER_POOLS"
    /\ stack.authorizer.identity_source = "method.request.header.Authorization"
    /\ stack.authorizer.cognito_user_pools = {r.id : r \in OfType("AWS::Cognito::UserPool")}
    /\ stack.authorizer.cognito_user_pools # {}

IsPreflight(m) ==
    /\ m.http_method = "OPTIONS"
    /\ m.authorization_type = "NONE"
    /\ m.integration.type = "MOCK"

SingleMutatingPath ==
    /\ {<<m.path, m.http_method>> : m \in {x \in stack.methods : Mutating(x)}}
            = {<<"/set-led", "POST">>}
    /\ \A m \in stack.methods :
        "SetLedLambdaGo" \in ComputeTargets(m) =>
            /\ Gated(m)
            /\ m.path = "/set-led"
            /\ m.http_method = "POST"

NeverInvokedUnauthorized ==
    request.stage = "invoked" =>
        /\ request.passed
        /\ request.header = "valid"
        /\ request.path = "/set-led"
        /\ request.verb = "POST"

\* C2 as stated: POST /set-led is the single mutating path, every method
\* that targets the set-led function is gated by the user-pool authorizer
\* reading the Authorization header, every method of the API maps to exactly
\* one compute target, no other path or method reaches the function, and the
\* function is never invoked for a request that did not pass the authorizer.
C2_EveryMethodOneTarget ==
    /\ Evaluated =>
        /\ SingleMutatingPath
        /\ \A m \in stack.methods : Cardinality(ComputeTargets(m)) = 1
    /\ NeverInvokedUnauthorized

\* C2 amended: POST /set-led is the single mutating path and maps to exactly
\* one compute target, the set-led function; it is gated by the user-pool
\* authorizer reading the Authorization header and no other path or method
\* reaches the function. The only other methods of the API are the
\* unauthenticated CORS preflight OPTIONS methods on / and /set-led, which
\* are answered by the gateway itself and map to no compute target. The
\* function is never invoked through the API for a request that did not
\* first pass the authorizer.
C2_AuthorizedInvocation ==
    /\ Evaluated =>
        /\ SingleMutatingPath
        /\ \A m \in stack.methods :
            IF Mutating(m)
            THEN ComputeTargets(m) = {"SetLedLambdaGo"}
            ELSE IsPreflight(m) /\ ComputeTargets(m) = {}
        /\ {m.path : m \in {x \in stack.methods : IsPreflight(x)}}
                = {"/", "/set-led"}
    /\ NeverInvokedUnauthorized

C2_Witness ==
    /\ request.stage = "invoked"
    /\ request.target = "SetLedLambdaGo"

-----------------------------------------------------------------------------

ParameterPaths == {"/iot/mqtt/username", "/iot/mqtt/password", "/iot/mqtt/broker"}

\* C3: the function's environment holds exactly the three entries
\* MQTT_USERNAME_SSM, MQTT_PASSWORD_SSM and MQTT_BROKER_SSM, and each value is
\* the path of a parameter the stack refers to (/iot/mqtt/username,
\* /iot/mqtt/password, /iot/mqtt/broker), never a literal secret.
C3_EnvironmentIsIndirect ==
    Evaluated =>
        /\ Cardinality(stack.environment) = 3
        /\ Keys(stack.environment) =
            {"MQTT_USERNAME_SSM", "MQTT_PASSWORD_SSM", "MQTT_BROKER_SSM"}
        /\ <<"MQTT_USERNAME_SSM", "/iot/mqtt/username">> \in stack.environment
        /\ <<"MQTT_PASSWORD_SSM", "/iot/mqtt/password">> \in stack.environment
        /\ <<"MQTT_BROKER_SSM", "/iot/mqtt/broker">> \in stack.environment
        /\ Values(stack.environment) \subseteq
            {p.parameter_name : p \in stack.params}

C3_Witness ==
    /\ Evaluated
    /\ "SetLedLambdaGo" \in created
    /\ stack.environment # {}

-----------------------------------------------------------------------------

\* the roles the function runs as
ExecutionRoles ==
    {e[2] : e \in {x \in stack.refs :
        /\ x[1] = "SetLedLambdaGo"
        /\ x[2] \in {r.id : r \in OfType("AWS::IAM::Role")}}}

FunctionGrants == {g \in stack.grants : g.grantee \in ExecutionRoles}

\* the parameter a grant is on
GrantedPath(g) == g.resource.resource[2]

WriteActions == {"ssm:PutParameter", "ssm:DeleteParameter", "ssm:DeleteParameters",
                 "ssm:LabelParameterVersion", "ssm:*", "*"}

\* C4: the parameters the function's execution role is granted access to are
\* exactly the parameter paths of the function's environment (the three
\* /iot/mqtt/* parameters), and every grant is read-only.
C4_GrantsMatchEnvironment ==
    Evaluated =>
        /\ {GrantedPath(g) : g \in FunctionGrants} = Values(stack.environment)
        /\ {GrantedPath(g) : g \in FunctionGrants} = ParameterPaths
        /\ \A g \in FunctionGrants :
            /\ g.resource.service = "ssm"
            /\ g.resource.resource[1] = "parameter"
            /\ g.actions \cap WriteActions = {}
            /\ g.actions \subseteq {"ssm:DescribeParameters", "ssm:GetParameters",
                                    "ssm:GetParameter", "ssm:GetParameterHistory"}

C4_Witness ==
    /\ Evaluated
    /\ "SetLedLambdaGoServiceRoleDefaultPolicy" \in created
    /\ Cardinality(FunctionGrants) = 3

-----------------------------------------------------------------------------

PublishActions == {"iot:Publish", "iot:RetainPublish", "iot:*", "*"}

\* C5: the device policy grants exactly iot:Connect on the client resource
\* ${iot:Connection.Thing.ThingName} (never a wildcard) and iot:Subscribe /
\* iot:Receive on topicfilter esp8266/commands/#; no statement allows a
\* publish action, so the device can neither connect under another device's
\* identity nor publish to any topic.
C5_DevicePolicy ==
    /\ Evaluated =>
        /\ Len(stack.iotPolicy) = 2
        /\ Statements(stack.iotPolicy) =
            {IotStatement({"iot:Connect"},
                Arn("iot", env.region, env.account, <<"client", ThingNameVariable>>)),
             IotStatement({"iot:Subscribe", "iot:Receive"},
                Arn("iot", env.region, env.account,
                    <<"topicfilter", "esp8266/commands/#">>))}
        /\ \A st \in Statements(stack.iotPolicy) :
            /\ st.actions \cap PublishActions = {}
            /\ st.resource.resource[2] # "*"
    /\ device.op = "iot:Publish" => ~device.allowed
    /\ (device.op = "iot:Connect" /\ device.allowed) =>
            device.client_id = thing_name
    /\ (device.op = "iot:Subscribe" /\ device.allowed) =>
            device.name = "esp8266/commands/#"

C5_Witness ==
    /\ device.op = "iot:Connect"
    /\ device.client_id # thing_name
    /\ ~device.allowed

-----------------------------------------------------------------------------

\* C6: the app client's identity, access and refresh token lifetimes are all
\* at most one hour, and self-signup is disabled on the user pool.
C6_TokenLifetimes ==
    Evaluated =>
        /\ stack.client.id_token_validity <= Hours(1)
        /\ stack.client.access_token_validity <= Hours(1)
        /\ stack.client.refresh_token_validity <= Hours(1)
        /\ stack.userPool.self_sign_up_enabled = FALSE

C6_Witness ==
    /\ Evaluated
    /\ {"IoTHubUserPool", "IoTHubAppClient"} \subseteq created
    /\ stack.client.refresh_token_validity > 0

-----------------------------------------------------------------------------

\* C7: the distribution's allowed and cached methods are subsets of
\* {GET, HEAD, OPTIONS}, the cached methods are among the allowed ones,
\* query strings and cookies are not forwarded, and insecure viewer
\* requests are redirected to HTTPS.
C7_CacheBehavior ==
    Evaluated =>
        /\ stack.behavior.allowed_methods \subseteq {"GET", "HEAD", "OPTIONS"}
        /\ stack.behavior.cached_methods \subseteq {"GET", "HEAD", "OPTIONS"}
        /\ stack.behavior.cached_methods \subseteq stack.behavior.allowed_methods
        /\ stack.behavior.query_string = FALSE
        /\ stack.behavior.cookies_forward = "none"
        /\ stack.behavior.viewer_protocol_policy = "redirect-to-https"

C7_Witness ==
    /\ Evaluated
    /\ "WebsiteDistribution" \in created
    /\ stack.behavior.cached_methods # {}

-----------------------------------------------------------------------------

SingleOnes ==
    /\ Count("AWS::S3::Bucket") = 1
    /\ Count("AWS::CloudFront::Distribution") = 1
    /\ Count("AWS::CloudFront::OriginAccessControl") = 1
    /\ Count("AWS::ApiGateway::Resource") = 1
    /\ Cardinality(stack.apiPaths) = 1
    /\ Count("AWS::Cognito::UserPool") = 1
    /\ Count("AWS::Cognito::UserPoolClient") = 1
    /\ Count("AWS::IoT::Thing") = 1
    /\ Count("AWS::IoT::Policy") = 1

DeclaredOutputs == {"CloudFrontURL", "ApiURL", "UserPoolId", "UserPoolClientId"}

\* C8 as stated: the evaluated graph holds exactly one bucket, one
\* distribution, one access-control resource, one function, one REST
\* resource path with one method, one user pool, one app client, one thing,
\* one device policy and one credential attachment, and exactly four
\* outputs.
C8_OneOfEach ==
    Evaluated =>
        /\ SingleOnes
        /\ Count("AWS::Lambda::Function") = 1
        /\ Cardinality(stack.methods) = 1
        /\ Cardinality(stack.attachments) = 1
        /\ {o.name : o \in stack.outputs} = DeclaredOutputs

\* C8 amended: the evaluated graph holds exactly one bucket, one
\* distribution, one access-control resource, one REST resource path, one
\* user pool, one app client, one thing and one device policy; three
\* functions (the set-led function and the handlers that
\* auto_delete_objects and BucketDeployment bring); one POST method on the
\* path plus a CORS preflight OPTIONS method on the path and on the root;
\* two attachments of the credential (one to the policy, one to the thing);
\* and five outputs, the four declared ones and the Endpoint output of the
\* RestApi.
C8_ResourceCounts ==
    Evaluated =>
        /\ SingleOnes
        /\ FunctionIds = {"SetLedLambdaGo", "AutoDeleteObjectsProviderHandler",
                          "DeployFrontendHandler"}
        /\ {<<m.path, m.http_method>> : m \in stack.methods} =
            {<<"/set-led", "POST">>, <<"/set-led", "OPTIONS">>, <<"/", "OPTIONS">>}
        /\ Cardinality(stack.methods) = 3
        /\ Count("AWS::ApiGateway::Method") = 3
        /\ Cardinality(stack.attachments) = 2
        /\ Count("AWS::IoT::PolicyPrincipalAttachment") = 1
        /\ Count("AWS::IoT::ThingPrincipalAttachment") = 1
        /\ \A a \in stack.attachments : a.principal = cert_arn
        /\ {o.name : o \in stack.outputs} = DeclaredOutputs \cup {"IoTHubAPIEndpoint"}
        /\ Cardinality(stack.outputs) = 5

C8_Witness ==
    /\ AllCreated
    /\ Cardinality(stack.outputs) > 0

-----------------------------------------------------------------------------

\* C9: the user pool requires a second factor of every user, and the only
\* second factor it allows is the app-based one-time code: SMS is not
\* allowed.
C9_MfaRequired ==
    Evaluated =>
        /\ stack.userPool.mfa = "REQUIRED"
        /\ MfaConfiguration(stack.userPool) = "ON"
        /\ EnabledMfas(stack.userPool) = {"SOFTWARE_TOKEN_MFA"}

C9_Witness ==
    /\ Evaluated
    /\ "IoTHubUserPool" \in created
    /\ stack.userPool.mfa_second_factor.otp

-----------------------------------------------------------------------------

\* the reference graph has no cycle: its nodes can be peeled off, each time
\* those that refer to none of the rest
RECURSIVE Peels(_)
Peels(nodes) ==
    LET free == {n \in nodes : DependsOn(n) \cap nodes = {}}
    IN IF nodes = {} THEN TRUE
       ELSE IF free = {} THEN FALSE
       ELSE Peels(nodes \ free)

Acyclic == Peels(Ids)

\* C10: in every apply order that serializes creation along the reference
\* edges, the bucket and the access-control resource are created before the
\* distribution and the distribution before the bucket policy; the reference
\* graph has no cycle, so while a declared resource is not yet created some
\* resource can be created, and the apply can reach the state where all are.
C10_ApplyOrder ==
    /\ "WebsiteDistribution" \in created =>
            {"FrontendWebsiteBucket", "OAC"} \subseteq created
    /\ "FrontendWebsiteBucketPolicy" \in created =>
            "WebsiteDistribution" \in created
    /\ (Evaluated /\ created = {}) =>
            /\ Acyclic
            /\ \A e \in stack.refs : e[1] \in Ids /\ e[2] \in Ids
    /\ (Evaluated /\ created # Ids) =>
            \E id \in Ids \ created : DependsOn(id) \subseteq created

C10_Witness ==
    /\ AllCreated
    /\ "FrontendWebsiteBucketPolicy" \in created

====
